---- MODULE Spec2Model ----
(***************************************************************************)
(* Model of src/extraction/extract_script.py: the streaming extraction of  *)
(* reddit submissions from .zst archives.                                  *)
(*                                                                         *)
(* The specifications of the module:                                      *)
(*   Spec         one call of process_file, one action per I/O step, one   *)
(*                action per line yielded by read_lines_zst;               *)
(*   SpecBatch    the batch loop of __main__ driving process_file;         *)
(*   SpecProgress one call of process_file with its progress lines;        *)
(*   SpecListing  __main__ building input_files from the input path;       *)
(*   SpecDecode   read_and_decode over raw chunks of bytes (FairDecode:    *)
(*                with the next read always made);                         *)
(*   SpecLines    read_lines_zst over decoded chunks of text.              *)
(* Text is a sequence of one-character strings, so that lower-casing,      *)
(* stripping, splitting and substring search are computed, not assumed.    *)
(***************************************************************************)
EXTENDS Integers, Sequences, FiniteSets, TLC

VARIABLES
    \* ---- configuration (module globals of the script) ----
    output_format,          \* line 20
    require_partner_term,   \* line 54
    \* ---- __main__ ----
    pc,                     \* where the script is
    nfiles,                 \* len(input_files)
    fileIdx,                \* index in input_files of the file being processed
    attempts,               \* per file: number of calls of process_file
    status,                 \* per file: "pending" | "running" | "complete" | "failed"
    log,                    \* what the logger was given by __main__ / process_file end
    \* ---- process_file (locals of the running call) ----
    total_lines, matched_lines, bad_lines,
    created,                \* None or the datetime of the last submission seen
    output,                 \* what reached the output handle of the running file
    inHandle, outHandle,    \* per file: "none" | "open" | "closed"
    cur,                    \* the line the loop body ran on last, its outcome
    sources,                \* per write of a record: the line that caused it
    \* ---- read_and_decode ----
    dpc, eof, previous_chunk, bytes_read, rawSince, consumed, decoded, reads,
    \* ---- read_lines_zst ----
    lpc, buffer, yielded, fed,
    \* ---- __main__, the listing of the input directory: lines 225-234 ----
    npc,                    \* where the listing is
    isdir,                  \* os.path.isdir(input_file)
    listing,                \* os.listdir(input_file)
    pending,                \* the entries the loop of line 229 has not seen yet
    input_files,            \* the pairs (input path, output path without its format)
    \* ---- process_file, the progress report: lines 162, 168-173 ----
    log_interval,           \* the interval of line 170
    file_size,              \* os.stat(input_file).st_size
    file_pos,               \* file_handle.tell() as last yielded with a line
    progress                \* the progress lines logged for the running file

mainVars == <<output_format, require_partner_term, pc, nfiles, fileIdx, attempts, status, log,
              total_lines, matched_lines, bad_lines, created, output,
              inHandle, outHandle, cur, sources>>
decVars  == <<dpc, eof, previous_chunk, bytes_read, rawSince, consumed, decoded, reads>>
lineVars == <<lpc, buffer, yielded, fed>>
nameVars == <<npc, isdir, listing, pending, input_files>>
progVars == <<log_interval, file_size, file_pos, progress>>
vars     == <<mainVars, decVars, lineVars, nameVars, progVars>>

----------------------------------------------------------------------------
(* Bounds of the model *)

\* files in the batch, at most
NumFiles == 3
\* lines read_lines_zst yields per file before the model ends the file: when one
\* call of process_file is followed (Spec), when a batch is (SpecBatch)
MaxLines == 2
MaxBatchLines == 1
\* bytes of the archive read_and_decode is run on
MaxArchive == 6
\* characters of decoded text read_lines_zst is run on, and of one decoded chunk
MaxText == 5
MaxChunk == 2
\* entries of the input directory
MaxEntries == 3
\* bytes of an archive whose progress is reported, lines read of it
MaxSize == 2
MaxProgressLines == 4

----------------------------------------------------------------------------
(* Text *)

\* str.lower() on the letters the model uses
LowerChar(c) ==
    CASE c = "B" -> "b"
      [] c = "F" -> "f"
      [] c = "W" -> "w"
      [] c = "Z" -> "z"
      [] OTHER   -> c

Lower(s) == [i \in 1..Len(s) |-> LowerChar(s[i])]

\* the whitespace str.strip() removes
IsSpace(c) == c \in {" ", "\n", "\r", "\t"}

RECURSIVE LStrip(_)
LStrip(s) == IF s # <<>> /\ IsSpace(Head(s)) THEN LStrip(Tail(s)) ELSE s

RECURSIVE RStrip(_)
RStrip(s) ==
    IF s # <<>> /\ IsSpace(s[Len(s)]) THEN RStrip(SubSeq(s, 1, Len(s) - 1)) ELSE s

Strip(s) == RStrip(LStrip(s))

\* `term in t` for two str
Contains(term, t) ==
    \E i \in 0..(Len(t) - Len(term)) : SubSeq(t, i + 1, i + Len(term)) = term

----------------------------------------------------------------------------
(* Configuration: lines 18-54 *)

\* the decimal value of a str of digits, as int() and strptime read it
DigitVal(c) ==
    CASE c = "0" -> 0 [] c = "1" -> 1 [] c = "2" -> 2 [] c = "3" -> 3 [] c = "4" -> 4
      [] c = "5" -> 5 [] c = "6" -> 6 [] c = "7" -> 7 [] c = "8" -> 8 [] c = "9" -> 9

IsDigit(c) == c \in {"0", "1", "2", "3", "4", "5", "6", "7", "8", "9"}

RECURSIVE ParseInt(_)
ParseInt(s) ==
    IF s = <<>> THEN 0 ELSE 10 * ParseInt(SubSeq(s, 1, Len(s) - 1)) + DigitVal(s[Len(s)])

\* days from 1970-01-01 to the civil date y-m-d (proleptic Gregorian calendar)
DaysFromCivil(y, m, d) ==
    LET yy  == IF m <= 2 THEN y - 1 ELSE y
        era == yy \div 400
        yoe == yy - era * 400
        mp  == IF m > 2 THEN m - 3 ELSE m + 9
        doy == (153 * mp + 2) \div 5 + d - 1
        doe == yoe * 365 + yoe \div 4 - yoe \div 100 + doy
    IN  era * 146097 + doe - 719468

\* datetime.strptime(s, "%Y-%m-%d"): a naive datetime at midnight
strptime(s) ==
    [days |-> DaysFromCivil(ParseInt(SubSeq(s, 1, 4)), ParseInt(SubSeq(s, 6, 7)),
                            ParseInt(SubSeq(s, 9, 10))),
     secs |-> 0]

from_date == strptime(<<"2", "0", "0", "5", "-", "0", "1", "-", "0", "1">>)
to_date   == strptime(<<"2", "0", "3", "0", "-", "1", "2", "-", "3", "1">>)

\* datetime < datetime
DtLess(a, b) == a.days < b.days \/ (a.days = b.days /\ a.secs < b.secs)

\* the configured formats; "xml" stands for any value the script does not support
Formats == {"zst", "txt", "csv", "xml"}

\* a few of the configured terms (the lists of the script are longer)
CHILD_TERMS   == << <<"b", "a", "b", "y">>, <<"p", "p", "d">> >>
TENSION_TERMS == << <<"f", "i", "g", "h", "t">>, <<"n", "o", " ", "s", "e", "x">> >>
PARTNER_TERMS == << <<"w", "i", "f", "e">> >>

----------------------------------------------------------------------------
(* Python exceptions *)

ExcParent ==
    [e \in {"JSONDecodeError", "UnicodeEncodeError", "UnicodeDecodeError", "UnicodeError",
            "ValueError", "TypeError", "KeyError", "AttributeError", "OverflowError",
            "OSError", "SystemExit", "Exception"} |->
        CASE e = "JSONDecodeError"    -> "ValueError"
          [] e = "UnicodeEncodeError" -> "UnicodeError"
          [] e = "UnicodeDecodeError" -> "UnicodeError"
          [] e = "UnicodeError"       -> "ValueError"
          [] e = "SystemExit"         -> "BaseException"
          [] e = "Exception"          -> "BaseException"
          [] OTHER                    -> "Exception"]

RECURSIVE IsInstance(_, _)
IsInstance(e, cls) ==
    \/ e = cls
    \/ e \in DOMAIN ExcParent /\ IsInstance(ExcParent[e], cls)

\* a variant of CaughtByLoop: except (KeyError, TypeError)
CaughtByLoop_Narrow(e) ==
    \E c \in {"KeyError", "TypeError"} : IsInstance(e, c)

\* except (KeyError, json.JSONDecodeError, ValueError, TypeError): line 207
CaughtByLoop(e) ==
    \E c \in {"KeyError", "JSONDecodeError", "ValueError", "TypeError"} : IsInstance(e, c)

\* a variant of CaughtByMain: except OSError
CaughtByMain_OSError(e) == IsInstance(e, "OSError")

\* except Exception: line 240
CaughtByMain(e) == IsInstance(e, "Exception")

----------------------------------------------------------------------------
(* JSON values and input lines *)

Absent   == [t |-> "absent", s |-> <<>>, n |-> 0]
Null     == [t |-> "null", s |-> <<>>, n |-> 0]
Str(s)   == [t |-> "str", s |-> s, n |-> 0]
Num(n)   == [t |-> "num", s |-> <<>>, n |-> n]
\* a number past year 9999 (5e11), a number past time_t (1e20), the float Infinity
BigNum   == [t |-> "big", s |-> <<>>, n |-> 0]
HugeNum  == [t |-> "huge", s |-> <<>>, n |-> 0]
Infinity == [t |-> "inf", s |-> <<>>, n |-> 0]

\* a lone surrogate, as json.loads returns for "\ud83d"
SURR == "\\ud83d"

T_empty     == <<>>
T_Baby      == <<"B", "a", "b", "y">>
T_fight     == <<"f", "i", "g", "h", "t">>
T_babyfight == <<"b", "a", "b", "y", " ", "F", "i", "g", "h", "t">>
T_ba        == <<"b", "a">>
T_byfight   == <<"b", "y", " ", "f", "i", "g", "h", "t">>
T_wife      == <<"m", "y", " ", "w", "i", "f", "e">>
T_sofa      == <<"s", "o", "f", "a">>
T_blank     == <<" ">>
T_surr      == <<"p", "p", "d", " ", "f", "i", "g", "h", "t", SURR>>
T_title     == <<"t", "i", "t", "l", "e">>
T_digits    == <<"1", "1", "0", "4", "5", "3", "7", "6", "0", "0">>
T_abc       == <<"a", "b", "c">>

\* from_date and to_date as epoch seconds, and a moment between them
TS_from == from_date.days * 86400 + from_date.secs
TS_to   == to_date.days * 86400 + to_date.secs
TS_mid  == TS_from + 595462400

Object(title, selftext, created_utc) ==
    [kind |-> "object", title |-> title, selftext |-> selftext,
     created_utc |-> created_utc, text |-> <<>>]
NonObject(kind, text) ==
    [kind |-> kind, title |-> Absent, selftext |-> Absent, created_utc |-> Absent,
     text |-> text]

\* The lines read_lines_zst may yield.  kind "invalid" is text json.loads rejects
\* ("{not valid json", the empty line); "string" is a JSON string, "array" a JSON
\* array of one string, "number" and "null" the other JSON values.
InvalidLines == {NonObject("invalid", <<"{", "n", "o", "t">>), NonObject("invalid", <<>>)}

NonObjectLines ==
    {NonObject("number", <<"5">>), NonObject("null", <<>>),
     NonObject("string", T_sofa), NonObject("string", T_title),
     NonObject("array", T_sofa), NonObject("array", T_title)}

CommentLines ==
    {Object(Absent, Absent, Num(TS_mid)), Object(Absent, Str(T_babyfight), Num(TS_mid)),
     Object(Absent, Str(T_babyfight), Str(T_abc)), Object(Absent, Str(T_babyfight), HugeNum)}

SubmissionLines ==
    {Object(Str(T_Baby), Str(T_fight), Num(TS_mid)),
     Object(Str(T_babyfight), Absent, Num(TS_from)),
     Object(Str(T_babyfight), Null, Num(TS_from - 1)),
     Object(Str(T_babyfight), Str(T_wife), Num(TS_to)),
     Object(Str(T_babyfight), Str(T_empty), Num(TS_to + 1)),
     Object(Str(T_babyfight), Str(T_sofa), Absent),
     Object(Str(T_babyfight), Str(T_sofa), Str(T_digits)),
     Object(Str(T_babyfight), Str(T_sofa), Str(T_abc)),
     Object(Str(T_babyfight), Str(T_sofa), Null),
     Object(Str(T_babyfight), Str(T_sofa), BigNum),
     Object(Str(T_babyfight), Str(T_sofa), HugeNum),
     Object(Str(T_babyfight), Str(T_sofa), Infinity),
     Object(Str(T_ba), Str(T_byfight), Num(TS_mid)),
     Object(Null, Str(T_babyfight), Num(TS_mid)),
     Object(Str(T_Baby), Str(T_sofa), Num(TS_mid)),
     Object(Str(T_sofa), Str(T_fight), Num(TS_mid)),
     Object(Str(T_empty), Str(T_blank), Num(TS_mid)),
     Object(Str(T_surr), Str(T_wife), Num(TS_mid))}

Lines == InvalidLines \cup NonObjectLines \cup CommentLines \cup SubmissionLines

----------------------------------------------------------------------------
(* Matching logic: lines 116-140 *)

any_in_text(terms, text) ==
    LET t == Lower(text)
    IN  \E i \in 1..Len(terms) : Contains(terms[i], t)

\* `x or ""` for a JSON value x that is a str, null or absent
OrEmpty(v) == IF v.t = "str" THEN v.s ELSE <<>>

\* a variant of pull_submission_text: an object without a title is not skipped, its
\* title is taken to be empty
pull_submission_text_NoSkip(obj) ==
    LET raise(e) == [exc |-> e, none |-> FALSE, title |-> <<>>, body |-> <<>>]
    IN  CASE obj.kind = "object" ->
               [exc |-> "none", none |-> FALSE,
                title |-> OrEmpty(obj.title), body |-> OrEmpty(obj.selftext)]
          [] obj.kind \in {"string", "array"} -> raise("AttributeError")
          [] OTHER -> raise("TypeError")

\* [exc, none, title, body]: none is the (None, None) return
pull_submission_text(obj) ==
    LET noTitle == [exc |-> "none", none |-> TRUE, title |-> <<>>, body |-> <<>>]
        raise(e) == [exc |-> e, none |-> FALSE, title |-> <<>>, body |-> <<>>]
    IN  CASE obj.kind = "object" ->
               IF obj.title.t = "absent"
               THEN noTitle
               ELSE [exc |-> "none", none |-> FALSE,
                     title |-> OrEmpty(obj.title), body |-> OrEmpty(obj.selftext)]
          \* "title" in a str is a substring test, in a list an element test;
          \* neither has .get
          [] obj.kind = "string" ->
               IF Contains(<<"t", "i", "t", "l", "e">>, obj.text)
               THEN raise("AttributeError") ELSE noTitle
          [] obj.kind = "array" ->
               IF obj.text = <<"t", "i", "t", "l", "e">>
               THEN raise("AttributeError") ELSE noTitle
          \* a number, null: not iterable
          [] OTHER -> raise("TypeError")

\* a variant of cooccurrence_match_on: a child term or a tension term is enough
cooccurrence_match_on_Or(title, body) ==
    LET text == Lower(title \o <<"\n">> \o body)
    IN  IF Strip(text) = <<>> THEN FALSE
        ELSE IF ~(any_in_text(CHILD_TERMS, text) \/ any_in_text(TENSION_TERMS, text))
             THEN FALSE
        ELSE IF require_partner_term /\ ~any_in_text(PARTNER_TERMS, text) THEN FALSE
        ELSE TRUE

cooccurrence_match_on(title, body) ==
    LET text == Lower(title \o <<"\n">> \o body)
    IN  IF Strip(text) = <<>> THEN FALSE
        ELSE IF ~(any_in_text(CHILD_TERMS, text) /\ any_in_text(TENSION_TERMS, text))
             THEN FALSE
        ELSE IF require_partner_term /\ ~any_in_text(PARTNER_TERMS, text) THEN FALSE
        ELSE TRUE

----------------------------------------------------------------------------
(* process_file, the body of the loop: lines 175-211 *)

NoDate == [set |-> FALSE, days |-> 0, secs |-> 0]

\* json.loads(line)
json_loads(line) ==
    IF line.kind = "invalid"
    THEN [exc |-> "JSONDecodeError", obj |-> line]
    ELSE [exc |-> "none", obj |-> line]

\* datetime.utcfromtimestamp(int(obj.get('created_utc', 0)) or 0): line 184
created_of(obj) ==
    LET v == obj.created_utc
        at(n) == [exc |-> "none", dt |-> [set |-> TRUE, days |-> n \div 86400,
                                          secs |-> n % 86400]]
        raise(e) == [exc |-> e, dt |-> NoDate]
    IN  CASE v.t = "absent" -> at(0)
          [] v.t = "num"    -> at(v.n)
          [] v.t = "str"    ->
               IF v.s # <<>> /\ \A i \in 1..Len(v.s) : IsDigit(v.s[i])
               THEN at(ParseInt(v.s)) ELSE raise("ValueError")
          [] v.t = "null"   -> raise("TypeError")
          [] v.t = "big"    -> raise("ValueError")
          [] v.t = "huge"   -> raise("OverflowError")
          [] v.t = "inf"    -> raise("OverflowError")

\* variants of OutsideWindow: no upper bound; an exclusive lower bound
OutsideWindow_NoUpper(dt) == DtLess(dt, from_date)

OutsideWindow_Exclusive(dt) == ~DtLess(from_date, dt) \/ DtLess(to_date, dt)

\* created < from_date or created > to_date: line 185
OutsideWindow(dt) == DtLess(dt, from_date) \/ DtLess(to_date, dt)

\* what reaches the output handle
JsonLine(obj_min) == [kind |-> "json", fields |-> <<obj_min.title, obj_min.selftext>>]
Newline           == [kind |-> "nl", fields |-> <<>>]
CsvRow(fields)    == [kind |-> "row", fields |-> fields]

Encodable(text) == \A i \in 1..Len(text) : text[i] # SURR

\* the failures a write may meet: none, OSError in the first write of the line,
\* OSError in the second (the "\n" of write_line_zst and write_line_json)
IoChoices == {"ok", "fail1", "fail2"}

\* write_line_zst / write_line_json / write_line_csv: [exc, written]
write_line(fmt, obj_min, io) ==
    LET enc == Encodable(obj_min.title) /\ Encodable(obj_min.selftext)
    IN  IF ~enc THEN [exc |-> "UnicodeEncodeError", written |-> <<>>]
        ELSE IF io = "fail1" THEN [exc |-> "OSError", written |-> <<>>]
        ELSE IF fmt = "csv"
             THEN [exc |-> "none",
                   written |-> <<CsvRow(<<obj_min.title, obj_min.selftext>>)>>]
        ELSE IF io = "fail2"
             THEN [exc |-> "OSError", written |-> <<JsonLine(obj_min)>>]
        ELSE [exc |-> "none", written |-> <<JsonLine(obj_min), Newline>>]

\* One pass of the try block, lines 175-205, on one line: the exception it ends
\* with ("none" when it ends by continue or by falling through), and its effects.
TryBlock(line, io) ==
    LET parsed == json_loads(line)
        pst    == pull_submission_text(parsed.obj)
        cr     == created_of(parsed.obj)
        res(e, oc, dt, m, w) ==
            [exc |-> e, outcome |-> oc, created |-> dt, matched |-> m, written |-> w]
    IN  IF parsed.exc # "none" THEN res(parsed.exc, "raised", created, 0, <<>>)
        ELSE IF pst.exc # "none" THEN res(pst.exc, "raised", created, 0, <<>>)
        ELSE IF pst.none THEN res("none", "noop", created, 0, <<>>)
        ELSE IF cr.exc # "none" THEN res(cr.exc, "raised", created, 0, <<>>)
        ELSE IF OutsideWindow(cr.dt) THEN res("none", "rejected", cr.dt, 0, <<>>)
        ELSE IF ~cooccurrence_match_on(pst.title, pst.body)
             THEN res("none", "rejected", cr.dt, 0, <<>>)
        ELSE LET obj_min == [title |-> pst.title, selftext |-> pst.body]
                 w == write_line(output_format, obj_min, io)
             IN  res(w.exc, IF w.exc = "none" THEN "matched" ELSE "raised",
                     cr.dt, 1, w.written)

----------------------------------------------------------------------------------------------------------------------------------------
(* __main__ and process_file: lines 145-214, 236-242 *)

Files == 1..NumFiles

LogEntry(ev, total, matched, bad) ==
    [ev |-> ev, file |-> fileIdx, total |-> total, matched |-> matched, bad |-> bad]

NoLine == [line |-> NonObject("none", <<>>), outcome |-> "none", exc |-> "none"]

\* the state when the loop of line 237 is entered, but for the configuration
MainStart ==
    /\ pc = "main"
    /\ fileIdx = 0
    /\ attempts = [f \in Files |-> 0]
    /\ status = [f \in Files |-> "pending"]
    /\ log = <<>>
    /\ total_lines = 0
    /\ matched_lines = 0
    /\ bad_lines = 0
    /\ created = NoDate
    /\ output = <<>>
    /\ inHandle = [f \in Files |-> "none"]
    /\ outHandle = [f \in Files |-> "none"]
    /\ cur = NoLine
    /\ sources = <<>>

\* the interval of line 170, and its value in the runs that follow the reports
progress_interval == 100000
report_every == 2

\* nothing is reported within the lines followed
ProgIdle ==
    /\ log_interval = progress_interval
    /\ file_size = 0
    /\ file_pos = 0
    /\ progress = <<>>

others == <<decVars, lineVars, nameVars>>

\* An exception leaves process_file: `except Exception` of line 240 logs it and the
\* loop of line 237 goes on; anything else ends the script.
Propagate(e) ==
    /\ status' = [status EXCEPT ![fileIdx] = "failed"]
    /\ IF CaughtByMain(e)
       THEN /\ pc' = "main"
            /\ log' = Append(log, LogEntry("error_processing", 0, 0, 0))
       ELSE /\ pc' = "exited"
            /\ log' = log

\* for file_in, file_out in input_files: process_file(...)   (lines 237-239)
\* The model forgets the locals and the artifact of the call before.
StartFile ==
    /\ pc = "main"
    /\ fileIdx < nfiles
    /\ fileIdx' = fileIdx + 1
    /\ attempts' = [attempts EXCEPT ![fileIdx + 1] = @ + 1]
    /\ status' = [status EXCEPT ![fileIdx + 1] = "running"]
    /\ pc' = "open_output"
    /\ total_lines' = 0
    /\ matched_lines' = 0
    /\ bad_lines' = 0
    /\ created' = NoDate
    /\ output' = <<>>
    /\ cur' = NoLine
    /\ sources' = <<>>
    /\ UNCHANGED <<output_format, require_partner_term, nfiles, log, inHandle, outHandle>>
    /\ UNCHANGED others
    /\ file_size' = 0
    /\ file_pos' = 0
    /\ progress' = <<>>
    /\ UNCHANGED log_interval

\* the header of the csv artifact: line 157
CsvHeader == CsvRow(<<<<"t", "i", "t", "l", "e">>, <<"s", "e", "l", "f", "t", "e", "x", "t">>>>)

\* lines 146-160: open the output handle, write the csv header
OpenOutput(ok) ==
    /\ pc = "open_output"
    /\ IF output_format \notin {"zst", "txt", "csv"}
       THEN \* log.error, sys.exit()
            /\ ok
            /\ log' = Append(log, LogEntry("unsupported_format", 0, 0, 0))
            /\ status' = [status EXCEPT ![fileIdx] = "failed"]
            /\ pc' = "exited"
            /\ UNCHANGED <<output, outHandle>>
       ELSE IF ~ok
       THEN \* open() raises OSError
            /\ Propagate("OSError")
            /\ UNCHANGED <<output, outHandle>>
       ELSE /\ outHandle' = [outHandle EXCEPT ![fileIdx] = "open"]
            /\ output' = IF output_format = "csv" THEN <<CsvHeader>> ELSE <<>>
            /\ pc' = "stat"
            /\ UNCHANGED <<status, log>>
    /\ UNCHANGED <<output_format, require_partner_term, nfiles, fileIdx, attempts,
                   total_lines, matched_lines, bad_lines, created, inHandle, cur, sources>>
    /\ UNCHANGED others
    /\ UNCHANGED progVars

\* lines 162-166: os.stat, the counters
Stat(ok, size) ==
    /\ pc = "stat"
    /\ IF ok
       THEN /\ file_size' = size
            /\ created' = NoDate
            /\ matched_lines' = 0
            /\ bad_lines' = 0
            /\ total_lines' = 0
            /\ pc' = "loop"
            /\ UNCHANGED <<status, log>>
       ELSE /\ Propagate("OSError")
            /\ UNCHANGED <<file_size, created, matched_lines, bad_lines, total_lines>>
    /\ UNCHANGED <<output_format, require_partner_term, nfiles, fileIdx, attempts, output,
                   inHandle, outHandle, cur, sources>>
    /\ UNCHANGED others
    /\ UNCHANGED <<log_interval, file_pos, progress>>

\* line 100, at the first next() of the generator: open(file_name, 'rb')
ReaderOpen(ok) ==
    /\ pc = "loop"
    /\ inHandle[fileIdx] = "none"
    /\ IF ok
       THEN /\ inHandle' = [inHandle EXCEPT ![fileIdx] = "open"]
            /\ UNCHANGED <<pc, status, log>>
       ELSE /\ Propagate("OSError")
            /\ UNCHANGED inHandle
    /\ UNCHANGED <<output_format, require_partner_term, nfiles, fileIdx, attempts,
                   total_lines, matched_lines, bad_lines, created, output, outHandle, cur,
                   sources>>
    /\ UNCHANGED others
    /\ UNCHANGED progVars

\* the write failures that tell one run on `line` from another
IoFor(line) == IF TryBlock(line, "ok").matched = 1 THEN IoChoices ELSE {"ok"}

\* a variant of Percent: the fraction is not scaled to a percentage
Percent_Fraction(bytes, size) ==
    IF size = 0 THEN 0 ELSE (bytes * 2 + size) \div (2 * size)

\* (file_bytes_processed / file_size) * 100 if file_size else 0.0, as {pct:.0f}
\* shows it: rounded to the nearest integer (no tie arises for the sizes modelled)
Percent(bytes, size) ==
    IF size = 0 THEN 0 ELSE (bytes * 200 + size) \div (2 * size)

\* the progress line of line 173, logged before the try block runs on the line
ProgressEntry(pos) ==
    [ts |-> created, total |-> total_lines + 1, matched |-> matched_lines,
     bad |-> bad_lines, bytes |-> pos, pct |-> Percent(pos, file_size)]

\* lines 168-211: one line from read_lines_zst, yielded with the position pos of the
\* archive handle, one pass of the loop body.  The position of a handle never moves
\* back, and stays within the size of a regular file (a file of size 0 that yields
\* lines is a special file, whose st_size says nothing).
ProcessLine(line, io, limit, pos) ==
    /\ pc = "loop"
    /\ inHandle[fileIdx] = "open"
    /\ total_lines < limit
    /\ pos >= file_pos
    /\ file_size > 0 => pos <= file_size
    /\ file_pos' = pos
    /\ progress' = IF (total_lines + 1) % log_interval = 0
                   THEN Append(progress, ProgressEntry(pos))
                   ELSE progress
    /\ LET r == TryBlock(line, io)
           caught == r.exc # "none" /\ CaughtByLoop(r.exc)
       IN  /\ total_lines' = total_lines + 1
           /\ matched_lines' = matched_lines + r.matched
           /\ bad_lines' = IF caught THEN bad_lines + 1 ELSE bad_lines
           /\ created' = r.created
           /\ output' = output \o r.written
           /\ sources' = IF r.written # <<>> THEN Append(sources, line) ELSE sources
           /\ cur' = [line |-> line,
                      outcome |-> IF caught THEN "bad" ELSE r.outcome,
                      exc |-> r.exc]
           /\ IF r.exc = "none" \/ caught
              THEN UNCHANGED <<pc, status, log>>
              ELSE Propagate(r.exc)
    /\ UNCHANGED <<output_format, require_partner_term, nfiles, fileIdx, attempts,
                   inHandle, outHandle>>
    /\ UNCHANGED others
    /\ UNCHANGED <<log_interval, file_size>>

\* read_and_decode raises inside the generator (lines 94-95, or the decompressor):
\* the with of line 100 closes the archive, the exception leaves process_file
ReaderRaise ==
    /\ pc = "loop"
    /\ inHandle[fileIdx] = "open"
    /\ inHandle' = [inHandle EXCEPT ![fileIdx] = "closed"]
    /\ Propagate("UnicodeError")
    /\ UNCHANGED <<output_format, require_partner_term, nfiles, fileIdx, attempts,
                   total_lines, matched_lines, bad_lines, created, output, outHandle, cur,
                   sources>>
    /\ UNCHANGED others
    /\ UNCHANGED progVars

\* the generator ends (lines 105-106, 111), then lines 213-214
ReaderEnd ==
    /\ pc = "loop"
    /\ inHandle[fileIdx] = "open"
    /\ inHandle' = [inHandle EXCEPT ![fileIdx] = "closed"]
    /\ outHandle' = [outHandle EXCEPT ![fileIdx] = "closed"]
    /\ status' = [status EXCEPT ![fileIdx] = "complete"]
    /\ log' = Append(log, LogEntry("complete", total_lines, matched_lines, bad_lines))
    /\ pc' = "main"
    /\ UNCHANGED <<output_format, require_partner_term, nfiles, fileIdx, attempts,
                   total_lines, matched_lines, bad_lines, created, output, cur, sources>>
    /\ UNCHANGED others
    /\ UNCHANGED progVars

\* A handle process_file left open is closed only when the interpreter finalizes
\* the object: at some moment after the call was left, or never.
Finalize(f) ==
    /\ status[f] = "failed"
    /\ pc \in {"main", "open_output", "stat", "loop", "done"}
    /\ inHandle[f] = "open" \/ outHandle[f] = "open"
    /\ inHandle' = [inHandle EXCEPT ![f] = IF @ = "open" THEN "closed" ELSE @]
    /\ outHandle' = [outHandle EXCEPT ![f] = IF @ = "open" THEN "closed" ELSE @]
    /\ UNCHANGED <<output_format, require_partner_term, pc, nfiles, fileIdx, attempts,
                   status, log, total_lines, matched_lines, bad_lines, created, output,
                   cur, sources>>
    /\ UNCHANGED others
    /\ UNCHANGED progVars

\* the loop of line 237 is exhausted
EndBatch ==
    /\ pc = "main"
    /\ fileIdx = nfiles
    /\ pc' = "done"
    /\ UNCHANGED <<output_format, require_partner_term, nfiles, fileIdx, attempts, status,
                   log, total_lines, matched_lines, bad_lines, created, output, inHandle,
                   outHandle, cur, sources>>
    /\ UNCHANGED others
    /\ UNCHANGED progVars

\* the lines a batch is followed on: a match, a line that is not JSON, a line whose
\* timestamp raises OverflowError
BatchLines ==
    {Object(Str(T_Baby), Str(T_fight), Num(TS_mid)),
     NonObject("invalid", <<"{", "n", "o", "t">>),
     Object(Str(T_babyfight), Str(T_sofa), HugeNum)}

----------------
(* read_and_decode: lines 86-97, called at line 104 *)

\* chunk_size and max_window_size of line 104 (2**27 and (2**29) * 2), scaled to
\* chunks of two bytes and a window of two chunks
chunk_size      == 2
max_window_size == 4

\* Bytes: "a" an ASCII byte, "L" the lead byte of a two-byte character (0xC3),
\* "C" a continuation byte (0xA9).  Characters: "a", and "e'" for the pair L C.
Bytes == {"a", "L", "C"}

\* bytes.decode(): strict UTF-8, [ok, text]
RECURSIVE decode(_)
decode(b) ==
    IF b = <<>> THEN [ok |-> TRUE, text |-> <<>>]
    ELSE IF Head(b) = "a"
         THEN LET r == decode(Tail(b))
              IN  [ok |-> r.ok, text |-> <<"a">> \o r.text]
    ELSE IF Head(b) = "L" /\ Len(b) >= 2 /\ b[2] = "C"
         THEN LET r == decode(Tail(Tail(b)))
              IN  [ok |-> r.ok, text |-> <<"e'">> \o r.text]
    ELSE [ok |-> FALSE, text |-> <<>>]

\* what reader.read(chunk_size) may return: chunk_size bytes, or fewer at the end of
\* the archive, nothing after it
ReadResults ==
    IF eof THEN {<<>>}
    ELSE {b \in UNION {[1..n -> Bytes] : n \in 0..chunk_size} :
             Len(b) + consumed <= MaxArchive}

\* a variant of Concat: chunk + previous_chunk
Concat_Swapped(previous, chunk) == chunk \o previous

\* previous_chunk + chunk: line 90
Concat(previous, chunk) == previous \o chunk

\* a variant of WindowExceeded: the window is never exceeded
WindowExceeded_Never(n) == FALSE

\* if bytes_read > max_window_size: line 94
WindowExceeded(n) == n > max_window_size

DecIdle ==
    /\ dpc = "idle"
    /\ eof = FALSE
    /\ previous_chunk = <<>>
    /\ bytes_read = 0
    /\ rawSince = <<>>
    /\ consumed = 0
    /\ decoded = <<>>
    /\ reads = 0

InitDecode ==
    /\ dpc = "call"
    /\ eof = FALSE
    /\ previous_chunk = <<>>
    /\ bytes_read = 0
    /\ rawSince = <<>>
    /\ consumed = 0
    /\ decoded = <<>>
    /\ reads = 0

\* One activation of read_and_decode: from line 104 (dpc = "call", previous_chunk
\* None and bytes_read 0) or from line 97 (dpc = "retry").
ReadAndDecode(raw) ==
    /\ dpc \in {"call", "retry"}
    /\ LET n     == (IF dpc = "call" THEN 0 ELSE bytes_read) + chunk_size
           chunk == IF dpc = "call" THEN raw ELSE Concat(previous_chunk, raw)
           r     == decode(chunk)
       IN  /\ bytes_read' = n
           /\ rawSince' = (IF dpc = "call" THEN <<>> ELSE rawSince) \o raw
           /\ reads' = (IF dpc = "call" THEN 0 ELSE reads) + 1
           /\ consumed' = consumed + Len(raw)
           /\ eof' = (eof \/ Len(raw) < chunk_size)
           /\ IF r.ok
              THEN \* line 92 returns; line 105 ends the loop on an empty chunk
                   /\ decoded' = r.text
                   /\ previous_chunk' = <<>>
                   /\ dpc' = IF r.text = <<>> THEN "end" ELSE "call"
              ELSE IF WindowExceeded(n)
              THEN \* line 95
                   /\ dpc' = "raised"
                   /\ previous_chunk' = chunk
                   /\ UNCHANGED decoded
              ELSE \* line 97
                   /\ dpc' = "retry"
                   /\ previous_chunk' = chunk
                   /\ UNCHANGED decoded
    /\ UNCHANGED <<mainVars, lineVars, nameVars, progVars>>

----------------------------------------------------------------------------
(* read_lines_zst: lines 99-111 *)

Chars == {"x", " ", "\n"}

\* the decoded chunks read_and_decode may return: any text that is not empty
Chunks == UNION {[1..n -> Chars] : n \in 1..MaxChunk}

\* str.split("\n")
RECURSIVE Split(_)
Split(s) ==
    IF \A i \in 1..Len(s) : s[i] # "\n" THEN <<s>>
    ELSE LET k == CHOOSE i \in 1..Len(s) :
                      s[i] = "\n" /\ \A j \in 1..(i - 1) : s[j] # "\n"
         IN  <<SubSeq(s, 1, k - 1)>> \o Split(SubSeq(s, k + 1, Len(s)))

\* lines[:-1], each as it is yielded at line 109
CompleteLines(lines) == [i \in 1..(Len(lines) - 1) |-> Strip(lines[i])]

\* a variant of Carry: the buffer is emptied
Carry_Dropped(lines) == <<>>

\* lines[-1]: line 110
Carry(lines) == lines[Len(lines)]

LinesIdle ==
    /\ lpc = "idle"
    /\ buffer = <<>>
    /\ yielded = <<>>
    /\ fed = <<>>

InitLines ==
    /\ lpc = "run"
    /\ buffer = <<>>
    /\ yielded = <<>>
    /\ fed = <<>>

\* one pass of the while loop on a non-empty chunk: lines 104-110
FeedChunk(chunk) ==
    /\ lpc = "run"
    /\ Len(fed) + Len(chunk) <= MaxText
    /\ LET lines == Split(buffer \o chunk)
       IN  /\ yielded' = yielded \o CompleteLines(lines)
           /\ buffer' = Carry(lines)
    /\ fed' = fed \o chunk
    /\ UNCHANGED lpc
    /\ UNCHANGED <<mainVars, decVars, nameVars, progVars>>

\* read_and_decode returns the empty chunk: lines 105-106, 111
EndOfStream ==
    /\ lpc = "run"
    /\ lpc' = "end"
    /\ UNCHANGED <<buffer, yielded, fed>>
    /\ UNCHANGED <<mainVars, decVars, nameVars, progVars>>

\* read_and_decode raises: the generator is left through the with of line 100
DecodeRaises ==
    /\ lpc = "run"
    /\ lpc' = "raised"
    /\ UNCHANGED <<buffer, yielded, fed>>
    /\ UNCHANGED <<mainVars, decVars, nameVars, progVars>>

----------------------------------------------------------------------------
(* __main__, the input files: lines 15-16, 225-234; the output path: line 146 *)

\* input_file and output_file of lines 15-16, as short names of directories
input_file  == <<"i">>
output_file == <<"o">>

\* the names os.listdir may return
EntryNames ==
    {<<"a", ".", "z", "s", "t">>, <<"a", ".", "Z", "s", "t">>,
     <<"a", ".", "b", ".", "z", "s", "t">>, <<"b", ".", "z", "s", "t">>,
     <<"a", ".", "t", "x", "t">>, <<".", "z", "s", "t">>,
     <<"a", ".", "z", "s", "t", ".", "b">>, <<"a", "z", "s", "t">>}

\* str.endswith
EndsWith(s, suffix) ==
    Len(s) >= Len(suffix) /\ SubSeq(s, Len(s) - Len(suffix) + 1, Len(s)) = suffix

\* the index of the last c in p, 0 when there is none
LastIndex(p, c) ==
    IF \A i \in 1..Len(p) : p[i] # c THEN 0
    ELSE CHOOSE i \in 1..Len(p) : p[i] = c /\ \A j \in (i + 1)..Len(p) : p[j] # c

\* os.path.basename
basename(p) == SubSeq(p, LastIndex(p, "/") + 1, Len(p))

\* os.path.splitext(p)[0]: p up to the last dot of its last component, when a
\* character other than a dot stands before that dot in the component
splitext0(p) ==
    LET sep == LastIndex(p, "/")
        dot == LastIndex(p, ".")
    IN  IF dot > sep /\ \E i \in (sep + 1)..(dot - 1) : p[i] # "."
        THEN SubSeq(p, 1, dot - 1)
        ELSE p

\* os.path.join of a directory and a relative name
path_join(a, b) == a \o <<"/">> \o b

\* the characters of output_format
FormatChars(fmt) ==
    CASE fmt = "zst" -> <<"z", "s", "t">>
      [] fmt = "txt" -> <<"t", "x", "t">>
      [] fmt = "csv" -> <<"c", "s", "v">>
      [] OTHER       -> <<"x", "m", "l">>

\* output_path = f"{output_file}.{output_format}": line 146
output_path(out) == out \o <<".">> \o FormatChars(output_format)

\* line 231
input_name(file) == splitext0(splitext0(basename(file)))

NamesIdle ==
    /\ npc = "idle"
    /\ isdir = FALSE
    /\ listing = {}
    /\ pending = {}
    /\ input_files = <<>>

\* line 225, with any input: a single path, or a directory of up to MaxEntries entries
InitNames ==
    /\ npc = "start"
    /\ isdir \in BOOLEAN
    /\ listing \in {S \in SUBSET EntryNames :
                       Cardinality(S) <= MaxEntries /\ (~isdir => S = {})}
    /\ pending = listing
    /\ input_files = <<>>

\* lines 226-229: the input is a directory, os.listdir
ListDir ==
    /\ npc = "start"
    /\ isdir
    /\ npc' = "scan"
    /\ UNCHANGED <<isdir, listing, pending, input_files>>
    /\ UNCHANGED <<mainVars, decVars, lineVars, progVars>>

\* lines 229-232: one entry of the listing, in the order os.listdir gave
ScanEntry(file) ==
    /\ npc = "scan"
    /\ file \in pending
    /\ pending' = pending \ {file}
    /\ input_files' =
          IF EndsWith(Lower(file), <<".", "z", "s", "t">>)
          THEN Append(input_files, [in  |-> path_join(input_file, file),
                                    out |-> path_join(output_file, input_name(file))])
          ELSE input_files
    /\ UNCHANGED <<npc, isdir, listing>>
    /\ UNCHANGED <<mainVars, decVars, lineVars, progVars>>

\* the listing is exhausted
EndScan ==
    /\ npc = "scan"
    /\ pending = {}
    /\ npc' = "listed"
    /\ UNCHANGED <<isdir, listing, pending, input_files>>
    /\ UNCHANGED <<mainVars, decVars, lineVars, progVars>>

\* lines 233-234: the input is a single path
SinglePath ==
    /\ npc = "start"
    /\ ~isdir
    /\ input_files' = <<[in |-> input_file, out |-> output_file]>>
    /\ npc' = "listed"
    /\ UNCHANGED <<isdir, listing, pending>>
    /\ UNCHANGED <<mainVars, decVars, lineVars, progVars>>

----------------------------------------------------------------------------------------------------------------------------------------
(* Specifications *)

\* one call of process_file, on any configuration and any lines.  No progress line
\* is due within the lines followed, and only the progress line reads the size and
\* the offset of the archive: both are left at 0 here and in SpecBatch.
Init ==
    /\ output_format \in Formats
    /\ require_partner_term \in BOOLEAN
    /\ nfiles = 1
    /\ MainStart
    /\ DecIdle
    /\ LinesIdle
    /\ NamesIdle
    /\ ProgIdle

Next ==
    \/ StartFile
    \/ \E ok \in BOOLEAN : OpenOutput(ok)
    \/ \E ok \in BOOLEAN : Stat(ok, 0)
    \/ \E ok \in BOOLEAN : ReaderOpen(ok)
    \/ \E line \in Lines : \E io \in IoFor(line) : ProcessLine(line, io, MaxLines, 0)
    \/ ReaderRaise
    \/ ReaderEnd
    \/ \E f \in Files : Finalize(f)
    \/ EndBatch

Spec == Init /\ [][Next]_vars

\* a batch of files, on the configuration of the script but for the format
InitBatch ==
    /\ output_format \in Formats
    /\ require_partner_term = FALSE
    /\ nfiles \in 1..NumFiles
    /\ MainStart
    /\ DecIdle
    /\ LinesIdle
    /\ NamesIdle
    /\ ProgIdle

NextBatch ==
    \/ StartFile
    \/ \E ok \in BOOLEAN : OpenOutput(ok)
    \/ \E ok \in BOOLEAN : Stat(ok, 0)
    \/ \E ok \in BOOLEAN : ReaderOpen(ok)
    \/ \E line \in BatchLines : \E io \in IoFor(line) :
          ProcessLine(line, io, MaxBatchLines, 0)
    \/ ReaderRaise
    \/ ReaderEnd
    \/ \E f \in Files : Finalize(f)
    \/ EndBatch

SpecBatch == InitBatch /\ [][NextBatch]_vars

\* the steps of the script itself: all but the finalizations of the interpreter
Advance ==
    \/ StartFile
    \/ \E ok \in BOOLEAN : OpenOutput(ok)
    \/ \E ok \in BOOLEAN : Stat(ok, 0)
    \/ \E ok \in BOOLEAN : ReaderOpen(ok)
    \/ ReaderRaise
    \/ ReaderEnd
    \/ EndBatch
    \/ \E line \in BatchLines : \E io \in IoFor(line) :
          ProcessLine(line, io, MaxBatchLines, 0)

\* the steps the script has left, at most: every step of the script lowers it
Remaining ==
    IF pc \in {"done", "exited"} THEN 0
    ELSE 1 + (nfiles - fileIdx) * (MaxBatchLines + 5)
           + CASE pc = "main"        -> 0
               [] pc = "open_output" -> MaxBatchLines + 4
               [] pc = "stat"        -> MaxBatchLines + 3
               [] pc = "loop" /\ inHandle[fileIdx] = "none" -> MaxBatchLines + 2
               [] pc = "loop" -> MaxBatchLines - total_lines + 1

MainIdle ==
    /\ output_format = "txt"
    /\ require_partner_term = FALSE
    /\ nfiles = 0
    /\ pc = "idle"
    /\ fileIdx = 0
    /\ attempts = [f \in Files |-> 0]
    /\ status = [f \in Files |-> "pending"]
    /\ log = <<>>
    /\ total_lines = 0
    /\ matched_lines = 0
    /\ bad_lines = 0
    /\ created = NoDate
    /\ output = <<>>
    /\ inHandle = [f \in Files |-> "none"]
    /\ outHandle = [f \in Files |-> "none"]
    /\ cur = NoLine
    /\ sources = <<>>

InitDec == MainIdle /\ InitDecode /\ LinesIdle /\ NamesIdle /\ ProgIdle
NextDec == \E raw \in ReadResults : ReadAndDecode(raw)
SpecDecode == InitDec /\ [][NextDec]_vars

InitSplit == MainIdle /\ DecIdle /\ InitLines /\ NamesIdle /\ ProgIdle
NextSplit ==
    \/ \E chunk \in Chunks : FeedChunk(chunk)
    \/ EndOfStream
    \/ DecodeRaises
SpecLines == InitSplit /\ [][NextSplit]_vars

InitListing == MainIdle /\ DecIdle /\ LinesIdle /\ InitNames /\ ProgIdle
NextListing ==
    \/ ListDir
    \/ \E file \in EntryNames : ScanEntry(file)
    \/ EndScan
    \/ SinglePath
SpecListing == InitListing /\ [][NextListing]_vars

\* the lines a progress report is followed on: a match, a comment, a line that is
\* not JSON
ProgressLines ==
    {Object(Str(T_Baby), Str(T_fight), Num(TS_mid)),
     Object(Absent, Absent, Num(TS_mid)),
     NonObject("invalid", <<"{", "n", "o", "t">>)}

\* one call of process_file on an archive of any size up to MaxSize, with a report
\* every report_every lines for the one every progress_interval lines of the script
InitProgress ==
    /\ output_format = "txt"
    /\ require_partner_term = FALSE
    /\ nfiles = 1
    /\ MainStart
    /\ DecIdle
    /\ LinesIdle
    /\ NamesIdle
    /\ log_interval = report_every
    /\ file_size = 0
    /\ file_pos = 0
    /\ progress = <<>>

NextProgress ==
    \/ StartFile
    \/ \E ok \in BOOLEAN : OpenOutput(ok)
    \/ \E ok \in BOOLEAN : \E size \in 0..MaxSize : Stat(ok, size)
    \/ \E ok \in BOOLEAN : ReaderOpen(ok)
    \/ \E line \in ProgressLines : \E io \in IoFor(line) : \E pos \in 0..MaxSize :
          ProcessLine(line, io, MaxProgressLines, pos)
    \/ ReaderRaise
    \/ ReaderEnd
    \/ \E f \in Files : Finalize(f)
    \/ EndBatch

SpecProgress == InitProgress /\ [][NextProgress]_vars

----------------------------------------------------------------------------
(* What the claims say about a line, read off the line itself *)

\* the line is a JSON object that carries a title field
IsSubmission(l) == l.kind = "object" /\ l.title.t # "absent"

\* title and body as text, empty when null or absent
TextOf(v) == IF v.t = "str" THEN v.s ELSE <<>>

\* the lowercase concatenation of title and body, joined by a newline
Haystack(l) == Lower(TextOf(l.title) \o <<"\n">> \o TextOf(l.selftext))

HasTerm(terms, l) == \E i \in 1..Len(terms) : Contains(terms[i], Haystack(l))

\* a child term and a tension term, and a partner term when one is required
TermsPresent(l) ==
    /\ HasTerm(CHILD_TERMS, l)
    /\ HasTerm(TENSION_TERMS, l)
    /\ require_partner_term => HasTerm(PARTNER_TERMS, l)

\* the creation timestamp of the line in epoch seconds, when it has a readable one
HasTs(l) ==
    \/ l.created_utc.t \in {"absent", "num"}
    \/ l.created_utc.t = "str" /\ l.created_utc.s # <<>>
         /\ \A i \in 1..Len(l.created_utc.s) : IsDigit(l.created_utc.s[i])

Ts(l) ==
    CASE l.created_utc.t = "num" -> l.created_utc.n
      [] l.created_utc.t = "str" -> ParseInt(l.created_utc.s)
      [] OTHER -> 0

\* from_date <= created <= to_date, 2005-01-01T00:00:00 being second 1104537600 and
\* 2030-12-31T00:00:00 second 1924905600
InWindow(l) == HasTs(l) /\ 1104537600 <= Ts(l) /\ Ts(l) <= 1924905600

\* the records of the artifact: what follows the header of a csv, the JSON objects
\* otherwise
Records(out) ==
    IF output_format = "csv"
    THEN IF out = <<>> THEN <<>> ELSE Tail(out)
    ELSE SelectSeq(out, LAMBDA e : e.kind = "json")

\* the step is one pass of the loop of line 168
LineStep == total_lines' = total_lines + 1

----------------------------------------------------------------------------
(* C1 *)

\* C1 as stated, on the lines the loop body ran on without raising: a line that is a
\* submission is a match when a child and a tension term (and a partner term if
\* required) are present, and is rejected otherwise.
C1_AsStated ==
    (IsSubmission(cur.line) /\ cur.exc = "none") =>
        IF TermsPresent(cur.line)
        THEN cur.outcome = "matched"
        ELSE cur.outcome = "rejected"

\* C1, amended: for every submission line whose creation timestamp lies inside the
\* date window, if the lowercase concatenation of title and body holds a child term
\* and a tension term (and a partner term when require_partner_term is set), the
\* filter counts a match and hands the record (title, body) to the sink, where it is
\* the last record unless the write raised; if a category has no term present, the
\* line is rejected and nothing is written.
C1_Cooccurrence ==
    [][LineStep =>
        LET l == cur'.line
        IN  (IsSubmission(l) /\ InWindow(l)) =>
              IF TermsPresent(l)
              THEN /\ matched_lines' = matched_lines + 1
                   /\ cur'.outcome \in {"matched", "bad", "raised"}
                   /\ cur'.exc = "none" =>
                        /\ cur'.outcome = "matched"
                        /\ Len(Records(output')) = Len(Records(output)) + 1
                        /\ Records(output')[Len(Records(output'))].fields
                             = <<TextOf(l.title), TextOf(l.selftext)>>
              ELSE /\ cur'.outcome = "rejected"
                   /\ matched_lines' = matched_lines
                   /\ bad_lines' = bad_lines
                   /\ output' = output]_vars

\* a match that needed its partner term, and a rejection for want of one
C1_Witness ==
    /\ require_partner_term
    /\ total_lines = 2
    /\ matched_lines = 1
    /\ cur.outcome = "rejected"
    /\ IsSubmission(cur.line) /\ InWindow(cur.line)
    /\ HasTerm(CHILD_TERMS, cur.line) /\ HasTerm(TENSION_TERMS, cur.line)

----------------------------------------------------------------------------
(* C2 *)

\* the line parsed as JSON, carries a title, lies in the date window and satisfies
\* the co-occurrence rule
Sound(l) ==
    /\ l.kind # "invalid"
    /\ IsSubmission(l)
    /\ InWindow(l)
    /\ TermsPresent(l)

\* C2: at every point of a run, every record in the output comes from an input line
\* that parsed as JSON, carries a title, was created inside [from_date, to_date] and
\* satisfies the co-occurrence rule; no other line caused a write.
C2_OutputSoundness ==
    /\ Len(Records(output)) = Len(sources)
    /\ \A i \in 1..Len(sources) :
          /\ Sound(sources[i])
          /\ Records(output)[i].fields
               = <<TextOf(sources[i].title), TextOf(sources[i].selftext)>>

C2_Witness ==
    /\ Len(Records(output)) = 2
    /\ total_lines = 2
    /\ sources[1] # sources[2]

----------------------------------------------------------------------------
(* C3 *)

\* C3: every pass of the loop counts the line once in total_lines, never counts it
\* both as matched and as bad, and counts it as bad only when nothing was matched or
\* written for it.
C3_ExactlyOneOutcome ==
    [][LineStep =>
        /\ ~(matched_lines' = matched_lines + 1 /\ bad_lines' = bad_lines + 1)
        /\ bad_lines' = bad_lines + 1 =>
              (matched_lines' = matched_lines /\ output' = output)]_vars

----------------------------------------------------------------------------
(* C4 *)

\* C4: a line that is not valid JSON adds one to total_lines and one to bad_lines,
\* leaves matched_lines and the output as they were, and leaves the loop running on
\* the same file.
C4_MalformedLine ==
    [][(LineStep /\ cur'.line.kind = "invalid") =>
        /\ bad_lines' = bad_lines + 1
        /\ matched_lines' = matched_lines
        /\ output' = output
        /\ pc' = "loop"
        /\ status' = status
        /\ inHandle' = inHandle]_vars

\* a match on the line after a malformed one
C4_Witness ==
    /\ total_lines = 2
    /\ bad_lines = 1
    /\ matched_lines = 1
    /\ cur.outcome = "matched"
    /\ pc = "loop"

----------------------------------------------------------------------------
(* C5 *)

\* C5: a line whose JSON object has no title field adds one to total_lines and leaves
\* bad_lines, matched_lines, the last creation time seen and the output unchanged,
\* whatever its other fields hold.
C5_NonSubmissionSkip ==
    [][(LineStep /\ cur'.line.kind = "object" /\ cur'.line.title.t = "absent") =>
        /\ bad_lines' = bad_lines
        /\ matched_lines' = matched_lines
        /\ created' = created
        /\ output' = output
        /\ cur'.outcome = "noop"
        /\ pc' = "loop"]_vars

\* a comment with keywords and a timestamp that would raise, after a submission
C5_Witness ==
    /\ cur.outcome = "noop"
    /\ cur.line.kind = "object"
    /\ cur.line.created_utc.t = "huge"
    /\ HasTerm(CHILD_TERMS, cur.line)
    /\ created.set
    /\ matched_lines = 1

----------------------------------------------------------------------------
(* C6 *)

\* C6: a submission passes the date filter exactly when from_date <= created <=
\* to_date: created outside the window, it is rejected whatever its keywords;
\* created inside (at second 1104537600, 2005-01-01T00:00:00, for one), the
\* keywords decide.
C6_DateBoundary ==
    [][LineStep =>
        LET l == cur'.line
        IN  (IsSubmission(l) /\ HasTs(l)) =>
              /\ ~(1104537600 <= Ts(l) /\ Ts(l) <= 1924905600) =>
                    /\ cur'.outcome = "rejected"
                    /\ matched_lines' = matched_lines
                    /\ output' = output
              /\ (1104537600 <= Ts(l) /\ Ts(l) <= 1924905600) =>
                    (matched_lines' = matched_lines + 1 <=> TermsPresent(l))]_vars

\* accepted at from_date exactly, after a rejection one second before it
C6_Witness ==
    /\ total_lines = 2
    /\ matched_lines = 1
    /\ cur.outcome = "matched"
    /\ HasTs(cur.line) /\ Ts(cur.line) = 1104537600
    /\ created = [set |-> TRUE, days |-> from_date.days, secs |-> 0]

----------------------------------------------------------------------------
(* C7 *)

Supported == {"zst", "txt", "csv"}

\* process_file was called once for every file of the batch
AllAttemptedOnce == \A f \in 1..nfiles : attempts[f] = 1

\* the failure of file f was logged by line 241
Logged(f) == \E i \in 1..Len(log) : log[i].ev = "error_processing" /\ log[i].file = f

\* C7 as stated, for every configuration: the script is never ended by what a file
\* raises, no file is attempted twice, and at the end of the loop every file was
\* attempted.
C7_AsStated ==
    /\ pc # "exited"
    /\ \A f \in Files : attempts[f] <= 1
    /\ pc = "done" => AllAttemptedOnce

\* what C7 says of a state
BatchGoesOn ==
    /\ pc # "exited"
    /\ \A f \in Files : attempts[f] <= 1
    /\ \A f \in Files : f > fileIdx => attempts[f] = 0
    /\ \A f \in Files : status[f] = "failed" => Logged(f)
    /\ pc = "done" => AllAttemptedOnce
    /\ pc # "done" => ENABLED Advance

\* C7, amended: when the configured output format is one of zst, txt, csv, whatever
\* is raised while a file is processed (a decode error, an I/O error on open, stat or
\* write, any other exception of the loop body) is logged by the orchestrator, which
\* goes on with the next file; no file is attempted twice; and the loop reaches its
\* end with every file attempted once: until then the script has a next step, and
\* every step but the finalizations of the interpreter lowers the count of the steps
\* left.  (On any other format
\* process_file ends the script by sys.exit() at the first file.)
C7_BatchIsolation ==
    /\ (output_format \in Supported) => BatchGoesOn
    /\ [][(output_format \in Supported) =>
             (BatchGoesOn' /\ ((\E f \in Files : Finalize(f)) \/ Remaining' < Remaining))]_vars

\* three archives, the second fails, the first and the third complete
C7_Witness ==
    /\ pc = "done"
    /\ nfiles = 3
    /\ status = <<"complete", "failed", "complete">>
    /\ Logged(2)

----------------------------------------------------------------------------
(* C8 *)

\* the UTF-8 encoding of a text
RECURSIVE Utf8Encode(_)
Utf8Encode(text) ==
    IF text = <<>> THEN <<>>
    ELSE (IF Head(text) = "a" THEN <<"a">> ELSE <<"L", "C">>) \o Utf8Encode(Tail(text))

\* the bytes are the encoding of some text
WellFormed(b) ==
    \E t \in UNION {[1..n -> {"a", "e'"}] : n \in 0..Len(b)} : Utf8Encode(t) = b

\* C8: while a chunk does not decode, read_and_decode keeps every byte read since the
\* last successful decode, in order, and reads on as long as the bytes asked of the
\* reader since then (chunk_size a read) stay within max_window_size; when the
\* bytes read are the encoding of a text it returns that text, all of it and nothing
\* else; it raises only with that count past the window.
C8_DecodeRecovery ==
    /\ dpc \in {"call", "retry", "end", "raised"} =>
          /\ bytes_read = reads * chunk_size
          /\ Len(rawSince) <= bytes_read
    /\ (dpc \in {"call", "end"} /\ reads > 0) => Utf8Encode(decoded) = rawSince
    /\ dpc = "retry" =>
          /\ previous_chunk = rawSince
          /\ ~WellFormed(rawSince)
          /\ bytes_read <= max_window_size
    /\ dpc = "raised" =>
          /\ ~WellFormed(rawSince)
          /\ bytes_read > max_window_size

\* a two-byte character cut by the boundary of the first chunk, decoded with the
\* second
C8_Witness ==
    /\ dpc = "call"
    /\ reads = 2
    /\ rawSince[chunk_size] = "L"
    /\ rawSince[chunk_size + 1] = "C"
    /\ decoded = <<"a", "e'", "a">>

----------------------------------------------------------------------------
(* C9 *)

NewlinesOf(T) == {i \in 1..Len(T) : T[i] = "\n"}

\* the position of the k-th newline of T, 0 for k = 0
KthNewline(T, k) ==
    IF k = 0 THEN 0
    ELSE CHOOSE i \in NewlinesOf(T) : Cardinality({j \in NewlinesOf(T) : j <= i}) = k

\* the k-th newline-terminated segment of T, without its newline
Segment(T, k) == SubSeq(T, KthNewline(T, k - 1) + 1, KthNewline(T, k) - 1)

\* s without the whitespace around it
Trimmed(s) ==
    LET solid == {i \in 1..Len(s) : ~IsSpace(s[i])}
    IN  IF solid = {} THEN <<>>
        ELSE SubSeq(s, CHOOSE i \in solid : \A j \in solid : i <= j,
                       CHOOSE i \in solid : \A j \in solid : j <= i)

\* C9: however the decoded text T was cut into chunks, read_lines_zst has yielded,
\* in order, the newline-terminated segments of T, each stripped, one per newline of
\* T; the buffer is what follows the last newline, holds no newline, and is never
\* yielded, also when the stream has ended.
C9_LineSplitting ==
    lpc \in {"run", "end", "raised"} =>
        /\ Len(yielded) = Cardinality(NewlinesOf(fed))
        /\ \A k \in 1..Len(yielded) : yielded[k] = Trimmed(Segment(fed, k))
        /\ \A i \in 1..Len(buffer) : buffer[i] # "\n"
        /\ buffer = SubSeq(fed, KthNewline(fed, Cardinality(NewlinesOf(fed))) + 1, Len(fed))

\* two lines yielded, the second empty, and an unterminated tail left at the end
C9_Witness ==
    /\ lpc = "end"
    /\ yielded = << <<"x">>, <<>> >>
    /\ buffer = <<"x">>
    /\ Len(fed) = MaxText

----------------------------------------------------------------------------
(* C10 *)

\* C10: once process_file has ended for a file and the orchestrator has moved on,
\* the archive handle and the output handle of that file are closed.
C10_ResourceRelease ==
    \A f \in Files :
        (status[f] \in {"complete", "failed"} /\ (fileIdx > f \/ pc = "done")) =>
            (inHandle[f] # "open" /\ outHandle[f] # "open")

----------------------------------------------------------------------------
(* C11 *)

\* process_file has returned normally for the file of this run
CompletedNormally == fileIdx >= 1 /\ status[fileIdx] = "complete"

\* the artifact as its format lays it out: a header and two-field rows for csv, a
\* JSON object of the two keys and a newline per record otherwise
WellLaidOut(out) ==
    IF output_format = "csv"
    THEN /\ out # <<>>
         /\ out[1] = CsvHeader
         /\ \A i \in 2..Len(out) : out[i].kind = "row" /\ Len(out[i].fields) = 2
    ELSE /\ Len(out) % 2 = 0
         /\ \A i \in 1..Len(out) :
               IF i % 2 = 1
               THEN out[i].kind = "json" /\ Len(out[i].fields) = 2
               ELSE out[i] = Newline

\* C11: when a file has completed normally with N = matched_lines, the artifact
\* holds exactly N records, in the order of the input lines that caused them, each
\* the pair (title, selftext) of its line, whatever the format (so the three formats
\* hold the same pairs for the same lines); a csv artifact is the header followed by
\* N rows of two fields, a txt or zst artifact is N lines, each a JSON object of the
\* keys title and selftext.
C11_OutputFidelity ==
    CompletedNormally =>
        /\ Len(Records(output)) = matched_lines
        /\ Len(Records(output)) = Len(sources)
        /\ \A i \in 1..Len(sources) :
              Records(output)[i].fields
                 = <<TextOf(sources[i].title), TextOf(sources[i].selftext)>>
        /\ WellLaidOut(output)

----------------------------------------------------------------------------
(* C12 *)

\* the pass of the loop parsed its line as JSON and raised before the record was
\* counted: while the title, the body or the creation timestamp were read
FieldAccessRaised ==
    /\ LineStep
    /\ cur'.line.kind # "invalid"
    /\ cur'.exc # "none"
    /\ matched_lines' = matched_lines

\* C12: whatever JSON value a line parses to and whatever its fields hold, an
\* exception raised while its title, body or creation timestamp are read adds one to
\* bad_lines, and the loop goes on with the next line of the same file.
C12_FieldAccessNonFatal ==
    [][FieldAccessRaised =>
        /\ bad_lines' = bad_lines + 1
        /\ cur'.outcome = "bad"
        /\ pc' = "loop"
        /\ status' = status]_vars

----------------------------------------------------------------------------
(* C13 *)

\* created_utc is absent, null, or a string that is not a number
NoUsableTimestamp(l) ==
    \/ l.created_utc.t = "absent"
    \/ l.created_utc.t = "null"
    \/ l.created_utc.t = "str" /\ ~HasTs(l)

\* 1970-01-01T00:00:00
EpochZero == [set |-> TRUE, days |-> 0, secs |-> 0]

\* C13: for a submission whose created_utc is absent, null or not a number, the
\* creation time the date filter uses is epoch zero: the line is decided by the date
\* filter (rejected, epoch zero being before from_date) and is not counted as bad.
C13_TimestampDefault ==
    [][(LineStep /\ IsSubmission(cur'.line) /\ NoUsableTimestamp(cur'.line)) =>
        /\ created' = EpochZero
        /\ cur'.outcome = "rejected"
        /\ bad_lines' = bad_lines
        /\ matched_lines' = matched_lines
        /\ output' = output]_vars

----------------------------------------------------------------------------
(* C14 *)

\* read_and_decode is one thread of control: its next read is always made
FairDecode == SpecDecode /\ WF_vars(NextDec)

\* the reads one call of line 104 may make, recursive calls included
MaxReads == max_window_size \div chunk_size + 1

\* C14: on a finite archive the chunk sequence ends: by an empty chunk at the end of
\* the archive or by the UnicodeError of line 95, also when the archive ends in the
\* middle of a character; and one call of read_and_decode from line 104 makes at
\* most max_window_size / chunk_size + 1 reads.
C14_DecoderTermination ==
    /\ [](reads <= MaxReads)
    /\ <>(dpc \in {"end", "raised"})

\* the archive ended in the middle of a two-byte character: the reads that followed
\* returned nothing, and the last one allowed raised
C14_Witness ==
    /\ dpc = "raised"
    /\ eof
    /\ reads = MaxReads
    /\ Len(rawSince) < chunk_size * 2
    /\ rawSince[Len(rawSince)] = "L"

----------------------------------------------------------------------------
(* C15 *)

\* the name ends with the archive extension, in any case of its letters
IsArchiveName(f) ==
    /\ Len(f) >= 4
    /\ f[Len(f) - 3] = "."
    /\ f[Len(f) - 2] \in {"z", "Z"}
    /\ f[Len(f) - 1] \in {"s", "S"}
    /\ f[Len(f)] \in {"t", "T"}

\* <output>/<name with the archive extension stripped>.<format>
ExpectedOutput(f) ==
    output_file \o <<"/">> \o SubSeq(f, 1, Len(f) - 4) \o <<".">>
        \o FormatChars(output_format)

\* C15: when the input is a directory and its listing has been gone through, every
\* entry whose name ends with .zst (in any case) is paired exactly once, with the
\* output path <output>/<name without its archive extension>.<format>, no other
\* entry is paired, and no two archives have the same output path.
C15_OneOutputPerInput ==
    (isdir /\ npc = "listed") =>
        /\ \A f \in listing :
              Cardinality({i \in 1..Len(input_files) :
                              input_files[i].in = input_file \o <<"/">> \o f})
                 = IF IsArchiveName(f) THEN 1 ELSE 0
        /\ Len(input_files) = Cardinality({f \in listing : IsArchiveName(f)})
        /\ \A f \in listing : \A i \in 1..Len(input_files) :
              input_files[i].in = input_file \o <<"/">> \o f
                 => output_path(input_files[i].out) = ExpectedOutput(f)
        /\ \A i, j \in 1..Len(input_files) :
              i # j => output_path(input_files[i].out) # output_path(input_files[j].out)

----------------------------------------------------------------------------
(* C16 *)

\* the files of the batch for which process_file raised
FailedFiles == {f \in 1..nfiles : status[f] = "failed"}

\* C16: when the batch loop has ended, the log holds a final summary whose count of
\* failed files is the number of files for which process_file raised.
C16_FailedFileReport ==
    pc = "done" =>
        \E i \in 1..Len(log) :
            /\ log[i].ev = "summary"
            /\ log[i].bad = Cardinality(FailedFiles)

----------------------------------------------------------------------------
(* C17 *)

\* what the progress lines logged so far show: one per multiple of the interval
\* reached, each with its line count; a percentage that is bytes over file size to
\* the nearest unit, 0 for a file size of 0, and at most 100; byte offsets that
\* never decrease
ReportsSound ==
    /\ Len(progress) = total_lines \div log_interval
    /\ \A k \in 1..Len(progress) :
          LET e == progress[k]
          IN  /\ e.total = k * log_interval
              /\ e.pct <= 100
              /\ file_size = 0 => e.pct = 0
              /\ file_size > 0 =>
                    /\ 2 * (e.pct * file_size - 100 * e.bytes) <= file_size
                    /\ 2 * (100 * e.bytes - e.pct * file_size) <= file_size
              /\ e.bytes <= file_pos
              /\ \A j \in 1..(k - 1) : progress[j].bytes <= e.bytes

\* the completion summary of line 214 closes the log, with the final counters
SummaryLogged ==
    /\ log # <<>>
    /\ log[Len(log)].ev = "complete"
    /\ log[Len(log)].total = total_lines
    /\ log[Len(log)].matched = matched_lines
    /\ log[Len(log)].bad = bad_lines

\* C17: a pass of the loop logs a progress line exactly when the line it counts makes
\* total_lines a multiple of the interval; the line carries that total, the matched
\* and bad counts of the lines before it, the creation time last read before it
\* (none: n/a) and the offset yielded with the line; the percentage is offset over
\* file size, 0 for a file size of 0, never above 100; offsets never decrease from
\* line to line; and a file that ends normally has logged its completion summary
\* with the final counters.
C17_ProgressReporting ==
    [][/\ LineStep =>
            /\ file_pos' >= file_pos
            /\ IF total_lines' % log_interval = 0
               THEN /\ Len(progress') = Len(progress) + 1
                    /\ progress'[Len(progress')].total = total_lines'
                    /\ progress'[Len(progress')].matched = matched_lines
                    /\ progress'[Len(progress')].bad = bad_lines
                    /\ progress'[Len(progress')].ts = created
                    /\ progress'[Len(progress')].bytes = file_pos'
                    /\ SubSeq(progress', 1, Len(progress)) = progress
               ELSE progress' = progress
       /\ ~LineStep => (progress' = progress \/ progress' = <<>>)
       /\ ReportsSound'
       /\ CompletedNormally' => SummaryLogged']_vars

\* two progress lines: the first before any creation time was read, at half of the
\* archive, the second at its end after a match; then the completion summary
C17_Witness ==
    /\ CompletedNormally
    /\ Len(progress) = 2
    /\ ~progress[1].ts.set
    /\ progress[1].pct = 50
    /\ progress[2].ts.set
    /\ progress[2].matched >= 1
    /\ progress[2].pct = 100
    /\ SummaryLogged

====
